---- MODULE Spec2Model ----
(***************************************************************************)
(* SmarTTS: the reading pipeline of audio_helpers.py (AudioCache,          *)
(* create_audio_segment, async_audio_generation) driven by the hot-key     *)
(* controller of smartts.py (AudioController.start_stopper/start_reading). *)
(*                                                                         *)
(* Threads: the keyboard listener thread (runs start_stopper, one call at  *)
(* a time), the reading thread (runs async_audio_generation), the pool's   *)
(* worker thread(s) (run create_audio_segment), and the audio device       *)
(* (ends a playback by itself).                                            *)
(***************************************************************************)
EXTENDS Integers, Sequences, FiniteSets

\* ---------------------------------------------------------------- bounds
\* Longest list of sentences one selected text is split into.
MaxSegs == 3
\* Number of reading sessions started in one run of the program.
MaxSessions == 2
\* AudioCache(max_size): the constructor's parameter (the module-level
\* instance of audio_helpers.py:37 passes 20).
max_size == 2

\* Number of AudioCache.add calls in the cache-only specification.
MaxAdds == 7
\* Most chunks one communicate.stream() yields before it ends.
MaxChunks == 3

\* ------------------------------------------------------ program constants
\* ThreadPoolExecutor(max_workers=1)
max_workers == 1
\* the virtual key code start_stopper reacts to (Key.f9)
F9_VK == 269025093
\* edge_tts_worker: attempts = 2
InitialAttempts == 2

\* Sentences a text may contain; the same sentence may occur twice.
Texts == {"a", "b"}
\* Key codes the listener may deliver: F9 and some other key.
Keys == {F9_VK, F9_VK + 1}
\* How a Provider call (tts_edge / tts_openai) ends: "ok" the audio is in the
\* temp file; "fail" the call failed, the error was logged and swallowed
\* (tts_openai's except clauses, edge_tts_worker's), and the temp file is
\* still empty.
Outcomes == {"ok", "fail"}

\* Kinds of chunk communicate.stream() yields.
ChunkTypes == {"audio", "WordBoundary"}

\* check_inputs: the speakers accepted for openai.
OpenAIVoices == {"alloy", "echo", "fable", "onyx", "nova", "shimmer"}
\* The ShortNames of edge_voices.txt (parse_tts_file); one stands for all.
EdgeVoices == {"en-GB-SoniaNeural"}
\* config.json settings tried at startup (speed as an integer): one valid
\* configuration (the defaults) and every way of being invalid.
Configs == [speed : {-1, 0, 1},
            tts_provider : {"openai", "edge", "azure"},
            speaker : {"en-GB-SoniaNeural", "nobody"}]
\* settings.get defaults of __main__
DefaultConfig == [speed |-> 1, tts_provider |-> "edge",
                  speaker |-> "en-GB-SoniaNeural"]

ChunkLists == UNION {[1..n -> Texts] : n \in 0..MaxSegs}

VARIABLES
    lpc,            \* listener thread: "idle" | "join" | "clear"
    stop_event,     \* AudioController.stop_audio_event (the one Event object)
    thread,         \* AudioController.reading_thread: "unstarted" | "alive" | "dead"
    session,        \* number of reading threads started so far
    text_chunks,    \* sent_tokenize(text) of the current session
    tpc,            \* reading thread: "start" | "top" | "wait" | "poll" | "check" | "shutdown" | "done"
    pos,            \* position in sorted(indexed_futures.keys()), from 1
    fut,            \* indexed_futures: index -> job / future state
    playing,        \* play objects the device is playing: <<session, index>>
    cache,          \* audio_cache.cache: the deque of <<text, path>>
    progress,       \* progress_bar.n
    bar_closed,     \* progress_bar closed (tqdm: disabled from then on)
    thread_exc,     \* an exception left async_audio_generation
    pool_shutdown,  \* the with-block of the executor has exited
    played,         \* history: indices whose play() was called, in order
    stopped,        \* history: indices whose play_obj.stop() was called
    ended,          \* history: indices whose playback ended by itself
    stop_requested, \* history: stop_event.set() was called for this session
    stop_set_at,    \* history: indices playing when stop_event.set() ran
    got,            \* cache-only spec: result of the last AudioCache.get
    adds,           \* cache-only spec: number of AudioCache.add calls so far
    attempts,       \* edge_tts_worker: attempts left
    epc,            \* edge_tts_worker: "loop" | "stream" | "done"
    eseen,          \* edge_tts_worker: chunks the stream yielded in this attempt
    efile,          \* edge_tts_worker: ordinals of the chunks written to the file
    eouts,          \* history: how each attempt ended, "ok" | "timeout" | "error"
    config,         \* __main__: settings read from config.json
    mpc             \* __main__: "load" | "rejected" | "listening"

vars == <<lpc, stop_event, thread, session, text_chunks, tpc, pos, fut,
          playing, cache, progress, bar_closed, thread_exc, pool_shutdown,
          played, stopped, ended, stop_requested, stop_set_at, got, adds,
          attempts, epc, eseen, efile, eouts, config, mpc>>

edgeVars == <<attempts, epc, eseen, efile, eouts>>
mainVars == <<config, mpc>>
listenerVars == <<lpc, stop_event>>
histVars == <<played, stopped, ended, stop_requested, stop_set_at>>
barVars == <<progress, bar_closed>>

\* ------------------------------------------------------------ AudioCache
NoPath == <<>>

RECURSIVE ScanFrom(_, _, _)
ScanFrom(c, text, k) ==
    IF k > Len(c) THEN NoPath
    ELSE IF c[k][1] = text THEN c[k][2]
    ELSE ScanFrom(c, text, k + 1)

\* AudioCache.get: the first entry, from the oldest, whose text matches.
get(c, text) == ScanFrom(c, text, 1)

\* Faulty variant of add: a plain list append, nothing is dropped.
add_unbounded(c, text, path) == Append(c, <<text, path>>)

\* AudioCache.add: deque(maxlen=max_size).append drops the leftmost entry
\* when the deque is full.
add(c, text, path) ==
    IF Len(c) >= max_size
    THEN Append(SubSeq(c, 2, Len(c)), <<text, path>>)
    ELSE Append(c, <<text, path>>)

\* ------------------------------------------------------------- helpers
N == Len(text_chunks)
Indices == 0..(N - 1)

\* Faulty variant of SortedKeys: the keys taken in decreasing order.
KeysReversed(n) == [k \in 1..n |-> n - k]

\* sorted(indexed_futures.keys()): the indices in increasing order.
SortedKeys(n) == [k \in 1..n |-> k - 1]

\* the index the for loop of async_audio_generation is at
index == SortedKeys(N)[pos]

\* Faulty variant of is_set: the stop event is never seen set.
is_set_never == FALSE

\* stop_event.is_set()
is_set == stop_event

\* Faulty variant of is_playing: the polling loop is left at once.
is_playing_never == FALSE

\* play_obj.is_playing() of the current segment's play object
is_playing == <<session, index>> \in playing

\* reading_thread.is_alive()
is_alive == thread = "alive"

\* Faulty variant of JoinReturns: the join does not wait for the thread.
JoinNoWait == TRUE

\* reading_thread.join() can return
JoinReturns == thread # "alive"

\* Faulty variant of ShutdownReturns: shutdown(wait=False).
ShutdownNoWait == TRUE

\* ThreadPoolExecutor.__exit__ = shutdown(wait=True): returns when every
\* submitted job has run to its end (queued jobs are not cancelled).
ShutdownReturns == \A i \in DOMAIN fut : fut[i].st = "done"

Running == {i \in DOMAIN fut : fut[i].st = "running"}

\* Faulty variant of WorkerFree: a thread per job, no pool limit.
WorkerAlwaysFree == TRUE

\* Faulty variant of WorkerFree: a job that raised took its worker with it.
WorkerLostOnRaise ==
    /\ Cardinality(Running) < max_workers
    /\ \A i \in DOMAIN fut : fut[i].res # "raised"

\* The pool has an idle worker (or may still create one): fewer than
\* max_workers jobs are executing.
WorkerFree == Cardinality(Running) < max_workers

\* Faulty variant of BarUpdate: the bar is never advanced.
BarUpdateNone(n, closed, k) == n

\* progress_bar.update(k): tqdm ignores update once the bar is closed.
BarUpdate(n, closed, k) == IF closed THEN n ELSE n + k

\* Faulty variant of Remaining: the whole total is added again.
RemainingAll(n, i) == n

\* len(text_chunks) - index: what the bar is advanced by when playback of
\* the segment at the 0-based index is stopped.
Remaining(n, i) == n - i

PendingJob == [st |-> "pending", hit |-> FALSE, stop_at_start |-> FALSE,
               called |-> FALSE, out |-> "none", res |-> "none"]

NoJobs == [i \in {} |-> PendingJob]

\* ---------------------------------------------------------------- Init
\* The pipeline and the controller's fields after AudioController.__init__.
Constructed ==
    /\ lpc = "idle"
    /\ stop_event = FALSE
    /\ thread = "unstarted"
    /\ session = 0
    /\ text_chunks = <<>>
    /\ tpc = "done"
    /\ pos = 1
    /\ fut = NoJobs
    /\ playing = {}
    /\ cache = <<>>
    /\ progress = 0
    /\ bar_closed = FALSE
    /\ thread_exc = FALSE
    /\ pool_shutdown = FALSE
    /\ played = <<>>
    /\ stopped = {}
    /\ ended = {}
    /\ stop_requested = FALSE
    /\ stop_set_at = {}
    /\ got = NoPath
    /\ adds = 0

\* edge_tts_worker at its entry.
EdgeEntered ==
    /\ attempts = InitialAttempts
    /\ epc = "loop"
    /\ eseen = 0
    /\ efile = {}
    /\ eouts = <<>>

\* The program with its controller built from the default settings and the
\* listener running.
Init ==
    /\ Constructed
    /\ EdgeEntered
    /\ config = DefaultConfig
    /\ mpc = "listening"

\* ------------------------------------------------- listener (smartts.py)
\* start_stopper, else branch: no reading thread alive, start_reading().
StartReading(key, chunks) ==
    /\ lpc = "idle"
    /\ key = F9_VK
    /\ ~is_alive
    /\ session < MaxSessions
    /\ session' = session + 1
    /\ thread' = "alive"
    /\ text_chunks' = chunks
    /\ tpc' = "start"
    /\ pos' = 1
    /\ fut' = NoJobs
    /\ progress' = 0
    /\ bar_closed' = FALSE
    /\ thread_exc' = FALSE
    /\ pool_shutdown' = FALSE
    /\ played' = <<>>
    /\ stopped' = {}
    /\ ended' = {}
    /\ stop_requested' = FALSE
    /\ stop_set_at' = {}
    /\ UNCHANGED <<lpc, stop_event, playing, cache, got, adds, edgeVars, mainVars>>

\* start_stopper, stop branch up to the join: stop_audio_event.set().
StopPressed(key) ==
    /\ lpc = "idle"
    /\ key = F9_VK
    /\ is_alive
    /\ stop_event' = TRUE
    /\ lpc' = "join"
    /\ stop_requested' = TRUE
    /\ stop_set_at' = {p[2] : p \in playing}
    /\ UNCHANGED <<thread, session, text_chunks, tpc, pos, fut, playing, cache,
                   progress, bar_closed, thread_exc, pool_shutdown, played,
                   stopped, ended, got, adds, edgeVars, mainVars>>

\* reading_thread.join() returns.
JoinDone ==
    /\ lpc = "join"
    /\ JoinReturns
    /\ lpc' = "clear"
    /\ UNCHANGED <<stop_event, thread, session, text_chunks, tpc, pos, fut,
                   playing, cache, progress, bar_closed, thread_exc,
                   pool_shutdown, played, stopped, ended, stop_requested,
                   stop_set_at, got, adds, edgeVars, mainVars>>

\* Faulty variant of clear: the flag is left as it is.
clear_forgotten == stop_event

\* Event.clear(): the flag after the call.
clear == FALSE

\* stop_audio_event.clear(); start_stopper returns.
ClearEvent ==
    /\ lpc = "clear"
    /\ stop_event' = clear
    /\ lpc' = "idle"
    /\ UNCHANGED <<thread, session, text_chunks, tpc, pos, fut, playing, cache,
                   progress, bar_closed, thread_exc, pool_shutdown, played,
                   stopped, ended, stop_requested, stop_set_at, got, adds, edgeVars, mainVars>>

\* ------------------------------- reading thread (async_audio_generation)
\* sent_tokenize, the progress bar, the executor and the submission of one
\* create_audio_segment job per chunk.
SubmitAll ==
    /\ tpc = "start"
    /\ fut' = [i \in Indices |-> PendingJob]
    /\ tpc' = "top"
    /\ UNCHANGED <<listenerVars, thread, session, text_chunks, pos, playing,
                   cache, barVars, thread_exc, pool_shutdown, histVars, got, adds, edgeVars, mainVars>>

\* Head of the for loop: the loop is exhausted, or stop_event is set (break),
\* or the body is entered. After the loop progress_bar.close() runs.
LoopTop ==
    /\ tpc = "top"
    /\ IF pos > N \/ is_set
       THEN /\ tpc' = "shutdown"
            /\ bar_closed' = TRUE
       ELSE /\ tpc' = "wait"
            /\ UNCHANGED bar_closed
    /\ UNCHANGED <<listenerVars, thread, session, text_chunks, pos, fut,
                   playing, cache, progress, thread_exc, pool_shutdown,
                   histVars, got, adds, edgeVars, mainVars>>

\* future.result() returns the wave object, which is played, or re-raises the
\* job's exception, which leaves the loop and the with-block.
TakeResult ==
    /\ tpc = "wait"
    /\ fut[index].st = "done"
    /\ IF fut[index].res = "raised"
       THEN /\ thread_exc' = TRUE
            /\ tpc' = "shutdown"
            /\ UNCHANGED <<playing, played>>
       ELSE /\ playing' = playing \cup {<<session, index>>}
            /\ played' = Append(played, index)
            /\ tpc' = "poll"
            /\ UNCHANGED thread_exc
    /\ UNCHANGED <<listenerVars, thread, session, text_chunks, pos, fut, cache,
                   barVars, pool_shutdown, stopped, ended, stop_requested,
                   stop_set_at, got, adds, edgeVars, mainVars>>

\* while play_obj.is_playing(): the test. When it is false the loop is left,
\* progress_bar.update(1) runs and the for loop moves on.
PollPlaying ==
    /\ tpc = "poll"
    /\ IF is_playing
       THEN /\ tpc' = "check"
            /\ UNCHANGED <<pos, progress>>
       ELSE /\ progress' = BarUpdate(progress, bar_closed, 1)
            /\ pos' = pos + 1
            /\ tpc' = "top"
    /\ UNCHANGED <<listenerVars, thread, session, text_chunks, fut, playing,
                   cache, bar_closed, thread_exc, pool_shutdown, histVars, got, adds, edgeVars, mainVars>>

\* Body of the polling loop: if stop_event is set, stop the play object,
\* update the bar by the remaining count, close it and break (then the
\* update(1) after the loop runs); else sleep 0.1 s and test again.
CheckStop ==
    /\ tpc = "check"
    /\ IF is_set
       THEN /\ playing' = playing \ {<<session, index>>}
            /\ stopped' = stopped \cup {index}
            /\ progress' = BarUpdate(BarUpdate(progress, bar_closed,
                                               Remaining(N, index)),
                                     TRUE, 1)
            /\ bar_closed' = TRUE
            /\ pos' = pos + 1
            /\ tpc' = "top"
       ELSE /\ tpc' = "poll"
            /\ UNCHANGED <<playing, stopped, progress, bar_closed, pos>>
    /\ UNCHANGED <<listenerVars, thread, session, text_chunks, fut, cache,
                   thread_exc, pool_shutdown, played, ended, stop_requested,
                   stop_set_at, got, adds, edgeVars, mainVars>>

\* Exit of the with-block (normally or by the exception): the executor is
\* shut down waiting for its jobs, then the thread function returns.
PoolShutdown ==
    /\ tpc = "shutdown"
    /\ ShutdownReturns
    /\ pool_shutdown' = TRUE
    /\ thread' = "dead"
    /\ tpc' = "done"
    /\ UNCHANGED <<listenerVars, session, text_chunks, pos, fut, playing, cache,
                   barVars, thread_exc, histVars, got, adds, edgeVars, mainVars>>

\* ------------------------------------ pool worker (create_audio_segment)
\* A free worker takes the oldest queued job. The job looks the chunk up in
\* the cache, then opens a temp file and calls the Provider.
JobStart(i) ==
    /\ i \in DOMAIN fut
    /\ fut[i].st = "pending"
    /\ \A j \in DOMAIN fut : j < i => fut[j].st # "pending"
    /\ WorkerFree
    /\ fut' = [fut EXCEPT ![i] =
                 [@ EXCEPT !.st = "running",
                           !.hit = get(cache, text_chunks[i + 1]) # NoPath,
                           !.stop_at_start = is_set,
                           !.called = TRUE]]
    /\ UNCHANGED <<listenerVars, thread, session, text_chunks, tpc, pos,
                   playing, cache, barVars, thread_exc, pool_shutdown,
                   histVars, got, adds, edgeVars, mainVars>>

\* What the job does after a Provider call that ended `out`:
\* AudioSegment.from_file raises on the empty file of a failed call (outside
\* any try), and the job returns the wave object otherwise.
JobResult(out) == IF out = "fail" THEN "raised" ELSE "wave"

\* The Provider call returns; the job adds <<chunk, temp file>> to the cache,
\* decodes the file and returns the wave object.
JobEnd(i, out) ==
    /\ i \in DOMAIN fut
    /\ fut[i].st = "running"
    /\ cache' = add(cache, text_chunks[i + 1], <<session, i>>)
    /\ fut' = [fut EXCEPT ![i] =
                 [@ EXCEPT !.st = "done", !.out = out, !.res = JobResult(out)]]
    /\ UNCHANGED <<listenerVars, thread, session, text_chunks, tpc, pos,
                   playing, barVars, thread_exc, pool_shutdown, histVars, got, adds, edgeVars, mainVars>>

\* ------------------------------------------------------------ the device
\* A playing object reaches the end of its audio.
PlaybackEnd(p) ==
    /\ p \in playing
    /\ playing' = playing \ {p}
    /\ ended' = ended \cup {p[2]}
    /\ UNCHANGED <<listenerVars, thread, session, text_chunks, tpc, pos, fut,
                   cache, barVars, thread_exc, pool_shutdown, played, stopped,
                   stop_requested, stop_set_at, got, adds, edgeVars, mainVars>>

Next ==
    \/ \E key \in Keys, chunks \in ChunkLists : StartReading(key, chunks)
    \/ \E key \in Keys : StopPressed(key)
    \/ JoinDone
    \/ ClearEvent
    \/ SubmitAll
    \/ LoopTop
    \/ TakeResult
    \/ PollPlaying
    \/ CheckStop
    \/ PoolShutdown
    \/ \E i \in 0..MaxSegs : JobStart(i)
    \/ \E i \in 0..MaxSegs, out \in Outcomes : JobEnd(i, out)
    \/ \E p \in playing : PlaybackEnd(p)

Spec == Init /\ [][Next]_vars

\* ------------------------------------------------ the program, scheduled
\* The steps of the reading thread, of the pool's worker, of the device and
\* of the listener's join. Each is a thread the operating system keeps
\* scheduling; a Provider call and a playback are taken to end.
ThreadStep ==
    SubmitAll \/ LoopTop \/ TakeResult \/ PollPlaying \/ CheckStop \/ PoolShutdown

WorkerStep ==
    \/ \E i \in 0..MaxSegs : JobStart(i)
    \/ \E i \in 0..MaxSegs, out \in Outcomes : JobEnd(i, out)

DeviceStep == \E p \in playing : PlaybackEnd(p)

ListenerStep == JoinDone \/ ClearEvent

\* The texts read under the scheduled program: every number of segments up
\* to MaxSegs, one sentence repeated (what a sentence says changes only
\* whether the cache is hit).
FairChunkLists == UNION {[1..n -> {"a"}] : n \in 0..MaxSegs}

FairNext ==
    \/ \E key \in Keys, chunks \in FairChunkLists : StartReading(key, chunks)
    \/ \E key \in Keys : StopPressed(key)
    \/ ThreadStep
    \/ WorkerStep
    \/ DeviceStep
    \/ ListenerStep

SpecFair ==
    /\ Init
    /\ [][FairNext]_vars
    /\ WF_vars(ThreadStep)
    /\ WF_vars(WorkerStep)
    /\ WF_vars(DeviceStep)
    /\ WF_vars(ListenerStep)

\* --------------------------------------------- AudioCache on its own
\* Any sequence of add and get calls on one AudioCache; every add is given a
\* new temp file <<0, adds>> (tempfile names are unique).
CacheAdd(text) ==
    /\ adds < MaxAdds
    /\ cache' = add(cache, text, <<0, adds>>)
    /\ adds' = adds + 1
    /\ UNCHANGED <<listenerVars, thread, session, text_chunks, tpc, pos, fut,
                   playing, barVars, thread_exc, pool_shutdown, histVars, got, edgeVars, mainVars>>

CacheGet(text) ==
    /\ got' = get(cache, text)
    /\ UNCHANGED <<listenerVars, thread, session, text_chunks, tpc, pos, fut,
                   playing, cache, barVars, thread_exc, pool_shutdown,
                   histVars, adds, edgeVars, mainVars>>

CacheNext ==
    \/ \E text \in Texts : CacheAdd(text)
    \/ \E text \in Texts : CacheGet(text)

SpecCache == Init /\ [][CacheNext]_vars

\* ------------------------------------------- edge_tts_worker on its own
pipelineVars == <<listenerVars, thread, session, text_chunks, tpc, pos, fut,
                  playing, cache, barVars, thread_exc, pool_shutdown,
                  histVars, got, adds>>

\* Faulty variant of AfterTimeout: the counter is not decremented.
AfterTimeoutSame(a) == a

\* except asyncio.TimeoutError: attempts -= 1
AfterTimeout(a) == a - 1

\* while attempts > 0: the test. A new attempt opens the file with "wb"
\* (truncating it) and starts the stream; otherwise the loop is over.
EdgeLoopTest ==
    /\ epc = "loop"
    /\ IF attempts > 0
       THEN /\ epc' = "stream"
            /\ efile' = {}
            /\ eseen' = 0
       ELSE /\ epc' = "done"
            /\ UNCHANGED <<efile, eseen>>
    /\ UNCHANGED <<attempts, eouts, pipelineVars, mainVars>>

\* The stream yields one more chunk; only "audio" chunks are written.
EdgeChunk(type) ==
    /\ epc = "stream"
    /\ eseen < MaxChunks
    /\ eseen' = eseen + 1
    /\ efile' = IF type = "audio" THEN efile \cup {eseen + 1} ELSE efile
    /\ UNCHANGED <<attempts, epc, eouts, pipelineVars, mainVars>>

\* The stream ends: break.
EdgeStreamEnd ==
    /\ epc = "stream"
    /\ eouts' = Append(eouts, "ok")
    /\ epc' = "done"
    /\ UNCHANGED <<attempts, eseen, efile, pipelineVars, mainVars>>

\* asyncio.TimeoutError in the attempt: one attempt fewer, back to the test.
EdgeTimeout ==
    /\ epc = "stream"
    /\ attempts' = AfterTimeout(attempts)
    /\ eouts' = Append(eouts, "timeout")
    /\ epc' = "loop"
    /\ UNCHANGED <<eseen, efile, pipelineVars, mainVars>>

\* Any other exception in the attempt: logged, break.
EdgeError ==
    /\ epc = "stream"
    /\ eouts' = Append(eouts, "error")
    /\ epc' = "done"
    /\ UNCHANGED <<attempts, eseen, efile, pipelineVars, mainVars>>

EdgeNext ==
    \/ EdgeLoopTest
    \/ \E type \in ChunkTypes : EdgeChunk(type)
    \/ EdgeStreamEnd
    \/ EdgeTimeout
    \/ EdgeError

\* One call of edge_tts_worker; the event loop keeps running the coroutine
\* and every stream ends (with its last chunk, a timeout or an error).
SpecEdge == Init /\ [][EdgeNext]_vars /\ WF_vars(EdgeNext)

\* ------------------------------------------------ startup (__main__)
\* Faulty variant of check_inputs: the speed is not checked.
check_inputs_no_speed(speed_factor, tts_provider, speaker) ==
    IF tts_provider \notin {"openai", "edge"} THEN "ValueError"
    ELSE IF tts_provider = "openai" /\ speaker \notin OpenAIVoices
         THEN "ValueError"
    ELSE IF tts_provider = "edge" /\ speaker \notin EdgeVoices
         THEN "ValueError"
    ELSE "ok"

\* check_inputs: the checks in the order of the code.
check_inputs(speed_factor, tts_provider, speaker) ==
    IF tts_provider \notin {"openai", "edge"} THEN "ValueError"
    ELSE IF tts_provider = "openai" /\ speaker \notin OpenAIVoices
         THEN "ValueError"
    ELSE IF tts_provider = "edge" /\ speaker \notin EdgeVoices
         THEN "ValueError"
    ELSE IF speed_factor <= 0 THEN "ValueError"
    ELSE "ok"

\* __main__: check_inputs raises and the program ends, or the
\* AudioController is built and the listener started.
MainStart ==
    /\ mpc = "load"
    /\ mpc' = IF check_inputs(config.speed, config.tts_provider,
                              config.speaker) = "ok"
              THEN "listening" ELSE "rejected"
    /\ UNCHANGED <<config, pipelineVars, edgeVars>>

\* config.json has been read; nothing is checked or built yet.
MainInit ==
    /\ Constructed
    /\ EdgeEntered
    /\ config \in Configs
    /\ mpc = "load"

MainNext ==
    \/ MainStart
    \/ (mpc = "listening" /\ Next)

SpecMain == MainInit /\ [][MainNext]_vars

\* ===================================================================
\* Properties
\* ===================================================================
InPlayed(i) == \E k \in 1..Len(played) : played[k] = i

\* C1: within a session the segments whose playback is started form a
\* strictly increasing sequence of indices: a higher index is never played
\* before a lower one.
C1_PlayedInIndexOrder ==
    \A a, b \in 1..Len(played) : a < b => played[a] < played[b]

\* Three segments of one session have been played.
C1_Witness == Len(played) >= 3 /\ thread = "dead"

\* C2 as stated: when stop_event.set() ran while segment i was playing, no
\* later segment is ever played, the sequencer is on its way out, and by the
\* end of the session stop() has been called on segment i's play object.
C2_StopCalledOnPlaying ==
    \A i \in stop_set_at :
        /\ \A k \in 1..Len(played) : played[k] <= i
        /\ tpc # "wait"
        /\ thread = "dead" => i \in stopped

\* C2 amended: when stop_event.set() ran while segment i was playing, no
\* later segment is ever played, the sequencer never again waits for a
\* future or polls another play object, and by the end of the session stop()
\* has been called on segment i's play object unless its playback ended by
\* itself before the sequencer's next check of the event.
C2_StopsOrEndedNoLaterPlay ==
    \A i \in stop_set_at :
        /\ \A k \in 1..Len(played) : played[k] <= i
        /\ tpc # "wait"
        /\ tpc \in {"poll", "check"} => index = i
        /\ thread = "dead" => (i \in stopped \/ i \in ended)

\* A session stopped in the middle of a segment that is not its last one:
\* stop() was called on it and the session is over.
C2_Witness ==
    \E i \in stop_set_at :
        /\ i \in stopped
        /\ i \notin ended
        /\ i + 1 < N
        /\ thread = "dead"

\* C3: in a finished session in which the stop event was never set and the
\* Provider failed for exactly one segment k with 0 < k < N-1, segment k was
\* not played, segments k-1 and k+1 were played and no exception left the
\* session.
C3_FailureIsolated ==
    (thread = "dead" /\ ~stop_requested) =>
        \A k \in DOMAIN fut :
            ( /\ 0 < k
              /\ k < N - 1
              /\ fut[k].out = "fail"
              /\ \A j \in DOMAIN fut : j # k => fut[j].out = "ok" )
            => ( /\ ~InPlayed(k)
                 /\ InPlayed(k - 1)
                 /\ InPlayed(k + 1)
                 /\ ~thread_exc )

\* C4: a job whose text was in the cache when the job started has not called
\* the Provider.
C4_NoProviderCallOnHit ==
    \A i \in DOMAIN fut : fut[i].hit => ~fut[i].called

\* C5: the cache never holds more than max_size entries, and every add
\* keeps the entries in insertion order: below max_size nothing is removed,
\* at max_size exactly the oldest entry is; a get changes nothing.
C5_BoundedFifo ==
    /\ [](Len(cache) <= max_size)
    /\ [][ /\ adds' = adds => cache' = cache
           /\ adds' # adds =>
                /\ cache'[Len(cache')] [2] = <<0, adds>>
                /\ IF Len(cache) < max_size
                   THEN /\ Len(cache') = Len(cache) + 1
                        /\ SubSeq(cache', 1, Len(cache)) = cache
                   ELSE /\ Len(cache') = max_size
                        /\ SubSeq(cache', 1, max_size - 1) = Tail(cache) ]_vars

\* max_size + 1 entries were added and a get has found one of them: the
\* first added is gone and the second added is now the oldest.
C5_Witness ==
    /\ adds = max_size + 1
    /\ Len(cache) = max_size
    /\ cache[1][2] = <<0, 1>>
    /\ got # NoPath

\* C6: get(key) right after add(key, artifact) returns that artifact (the
\* cache changes only by add, so its last entry is the last one added).
C6_GetAfterAdd ==
    cache # <<>> =>
        get(cache, cache[Len(cache)][1]) = cache[Len(cache)][2]

\* C7: when the join of the stop branch has returned, the reading thread has
\* exited, the executor has been shut down, every job of the session has run
\* to its end and nothing is playing.
C7_StopReturnsAfterTeardown ==
    lpc = "clear" =>
        /\ thread = "dead"
        /\ pool_shutdown
        /\ \A i \in DOMAIN fut : fut[i].st = "done"
        /\ playing = {}

\* The stop branch is about to return from a session of several segments
\* that was stopped during a playback.
C7_Witness ==
    /\ lpc = "clear"
    /\ N >= 2
    /\ stopped # {}

\* C8: a job that started when the stop event was already set has not called
\* the Provider and yields no artifact.
C8_NoProviderCallAfterStop ==
    \A i \in DOMAIN fut :
        fut[i].stop_at_start => (~fut[i].called /\ fut[i].res = "none")

\* C9: at most one play object is playing, within a session and across
\* sessions.
C9_OnePlaybackAtATime == Cardinality(playing) <= 1

\* The second segment of a second session is playing, the first session
\* having been stopped during a playback.
C9_Witness ==
    /\ session = 2
    /\ Len(played) = 2
    /\ playing = {<<2, 1>>}

C11_AtMostMaxWorkersRunning ==
    /\ Cardinality(Running) <= max_workers
    /\ ~is_alive => Running = {}

\* In a second session the worker is busy with one job while another job
\* is queued.
C11_Witness ==
    /\ session = 2
    /\ Cardinality(Running) = max_workers
    /\ \E i \in DOMAIN fut : fut[i].st = "pending"

\* C12: a session that ran to its end without the stop event being set and
\* without a failed synthesis ends with progress equal to the total.
C12_ProgressCompleteAtEnd ==
    ( /\ thread = "dead"
      /\ ~stop_requested
      /\ \A i \in DOMAIN fut : fut[i].out = "ok" )
    => progress = N

\* A session of three segments has ended normally.
C12_Witness ==
    /\ thread = "dead"
    /\ ~stop_requested
    /\ N = 3
    /\ \A i \in DOMAIN fut : fut[i].out = "ok"
    /\ Len(played) = 3

\* C13: a session that ended because the stop event was seen set, at the
\* head of the loop before the last segment or in the polling loop, ends
\* with progress equal to the total.
C13_ProgressCompleteOnStop ==
    ( /\ thread = "dead"
      /\ ~thread_exc
      /\ (pos <= N \/ stopped # {}) )
    => progress = N

\* C16: when the sequencer leaves its wait for the next future while the
\* stop event is set, it leaves the loop: the stop request is not held back
\* until the future resolves and its result is taken.
C16_StopDuringWaitEndsLoop ==
    [][ (tpc = "wait" /\ stop_event /\ tpc' # "wait") =>
            (tpc' = "shutdown" /\ played' = played /\ ~thread_exc') ]_vars

\* C17: when the stop event became set while nothing was playing, play() is
\* never called afterwards on a segment i > 0 (the event is set only while
\* the session runs and stays set, so it became set after segment i-1 was
\* over and before segment i was started).
C17_NoPlayAfterStopBetweenSegments ==
    [][ (stop_event /\ stop_set_at = {} /\ played' # played) =>
            played'[Len(played')] = 0 ]_vars

\* C19: the stop event is set only by a stop request made for the current
\* session, and it is not set when a session is started.
C19_SessionStartsWithEventClear ==
    /\ [](stop_event => stop_requested)
    /\ [][ session' # session => (~stop_event /\ ~stop_event') ]_vars

\* The first session was stopped, the stop branch has returned, and the
\* next F9 starts the second session.
C19_Witness ==
    /\ session = 1
    /\ stop_requested
    /\ lpc = "idle"
    /\ ~is_alive
    /\ ~stop_event

\* C20: no entry of the cache is the temp file of a failed Provider call of
\* the current session.
C20_CacheHoldsOnlySuccesses ==
    \A i \in DOMAIN fut :
        fut[i].out = "fail" =>
            \A k \in 1..Len(cache) : cache[k][2] # <<session, i>>

\* C15: an entry inserted as pinned is still returned by get after any
\* number of later insertions. AudioCache.add takes no pinned flag and the
\* class has one store, so the entry to be kept is inserted like every other
\* one; here it is the first entry added, whose temp file is <<0, 0>>.
C15_PinnedEntrySurvives ==
    adds >= 1 => \E text \in Texts : get(cache, text) = <<0, 0>>

\* C14: a configuration with speed_factor <= 0, an unknown tts_provider or a
\* speaker that is not a voice of the chosen provider never gets past
\* startup: no controller is built, no reading thread and no job starts.
ValidConfig ==
    /\ config.speed > 0
    /\ config.tts_provider \in {"openai", "edge"}
    /\ config.tts_provider = "openai" => config.speaker \in OpenAIVoices
    /\ config.tts_provider = "edge" => config.speaker \in EdgeVoices

C14_InvalidConfigRejected ==
    ~ValidConfig =>
        /\ mpc \in {"load", "rejected"}
        /\ thread = "unstarted"
        /\ session = 0
        /\ fut = NoJobs

\* An openai configuration whose speaker is an edge voice was rejected.
C14_Witness ==
    /\ mpc = "rejected"
    /\ config.tts_provider = "openai"
    /\ config.speaker = "en-GB-SoniaNeural"
    /\ config.speed > 0

\* C18: edge_tts_worker makes at most two attempts, a second one only after
\* the first timed out; an attempt that ended without a timeout (success or
\* another error) is the last one; and the call terminates.
C18_AtMostOneRetry ==
    /\ [](Len(eouts) + (IF epc = "stream" THEN 1 ELSE 0) <= 2)
    /\ [](\A k \in 1..Len(eouts) :
            /\ k > 1 => eouts[k - 1] = "timeout"
            /\ eouts[k] # "timeout" => (k = Len(eouts) /\ epc = "done"))
    /\ [](epc = "stream" /\ Len(eouts) = 1 => eouts[1] = "timeout")
    /\ <>(epc = "done")

\* The call is over after a timeout and a second attempt that failed with
\* another error, leaving part of the audio in the file.
C18_Witness ==
    /\ epc = "done"
    /\ eouts = <<"timeout", "error">>
    /\ efile # {}

\* C21: the progress count stays between 0 and the number of segments, and
\* within one session it never decreases; this includes the stop in the
\* middle of a segment (update by the remaining count, close, update(1)).
C21_ProgressBoundedMonotonic ==
    /\ [](progress \in 0..N)
    /\ [][session' = session => progress' >= progress]_vars

\* The second of three segments was stopped while playing: the bar jumped
\* from 1 to 3 and the update(1) after the polling loop left it there.
C21_Witness ==
    /\ N = 3
    /\ stopped = {1}
    /\ played = <<0, 1>>
    /\ bar_closed
    /\ progress = 3
    /\ tpc = "top"

\* C22: when Provider calls and playbacks end and the threads keep being
\* scheduled, a reading thread never stays alive for ever, and when it has
\* exited its pool is shut down and no job is left running, whatever path it
\* took; and the listener never stays in the join of start_stopper for ever,
\* which it leaves only with the thread exited.
C22_SessionTerminates ==
    /\ []<>(~is_alive)
    /\ [](thread = "dead" => (pool_shutdown /\ tpc = "done" /\ Running = {}))
    /\ []<>(lpc # "join")
    /\ [](lpc = "clear" => ~is_alive)

\* A session in which F9 was pressed and a synthesis failed has ended, and
\* the listener's join has returned.
C22_Witness ==
    /\ thread = "dead"
    /\ pool_shutdown
    /\ stop_requested
    /\ thread_exc
    /\ lpc = "clear"
    /\ N = 3
    /\ \E i \in DOMAIN fut : fut[i].called /\ ~(i \in {played[k] : k \in 1..Len(played)})

====
